---- MODULE Spec2Model ----
(***************************************************************************)
(* The Clippy sidecar: the memory store (sidecar/lancedb_store.py), the    *)
(* agent orchestrator (sidecar/letta_agent.py) and the HTTP endpoints      *)
(* (sidecar/main.py).                                                      *)
(*                                                                         *)
(* Text.  A Python str is a sequence of chunks, each chunk a TLA+ string,  *)
(* and stands for the concatenation of its chunks.  Text that comes from   *)
(* outside (messages, clipboard text, queries) is given one character per  *)
(* chunk, so that lower(), "in" and slicing are computed on characters;    *)
(* the literals of the source are kept as whole chunks.                    *)
(* A Python value that may be None is a record [type, value].              *)
(***************************************************************************)
EXTENDS Integers, Sequences, FiniteSets, TLC

VARIABLES
    GROK_API_KEY,   \* os.environ.get("GROK_API_KEY") when the agent is built
    api_key,        \* agent.client.api_key
    db,             \* the LanceDB directory: table name -> sequence of rows
    uuid_count,     \* how many ids uuid.uuid4() has handed out
    last_op,        \* the last call on the store and what it returned
    req,            \* the request the sidecar is serving, and its progress
    other,          \* a second request, served concurrently with req
    agent,          \* the attributes of the LettaLiteAgent singleton
    disk,           \* whether the data directory can be read and written
    boot            \* where each starting sidecar process stands in _init_table

vars == <<GROK_API_KEY, api_key, db, uuid_count, last_op, req, other, agent, disk, boot>>

(***************************************************************************)
(* Bounds of the model.                                                    *)
(***************************************************************************)
MaxItems == 2       \* items added to the store
MaxLimit == 3       \* search limits 1..MaxLimit
MaxBatch == 2       \* tool calls in one reply of the model
MaxStored == 4      \* items a data directory holds from earlier runs
MaxIds == 2         \* ids handed out before an add loses the one it drew

\* the sidecar processes that may be started on one data directory
Initializers == {1, 2}

(***************************************************************************)
(* Python values.                                                          *)
(***************************************************************************)
None == [type |-> "NoneType"]
Str(s) == [type |-> "str", value |-> s]

\* str(x) / f"{x}" of a value that may be None
Format(v) == IF v.type = "NoneType" THEN <<"None">> ELSE v.value

Min(a, b) == IF a <= b THEN a ELSE b

RECURSIVE TotalLen(_)
TotalLen(s) == IF s = <<>> THEN 0 ELSE Len(Head(s)) + TotalLen(Tail(s))

\* s[:n] : the chunks of s that lie within the first n characters
RECURSIVE Slice(_, _)
Slice(s, n) ==
    IF s = <<>> \/ Len(Head(s)) > n THEN <<>>
    ELSE <<Head(s)>> \o Slice(Tail(s), n - Len(Head(s)))

LowerChar(c) ==
    CASE c = "A" -> "a" [] c = "B" -> "b" [] c = "C" -> "c" [] c = "D" -> "d"
      [] c = "E" -> "e" [] c = "F" -> "f" [] c = "G" -> "g" [] c = "H" -> "h"
      [] c = "I" -> "i" [] c = "J" -> "j" [] c = "K" -> "k" [] c = "L" -> "l"
      [] c = "M" -> "m" [] c = "N" -> "n" [] c = "O" -> "o" [] c = "P" -> "p"
      [] c = "Q" -> "q" [] c = "R" -> "r" [] c = "S" -> "s" [] c = "T" -> "t"
      [] c = "U" -> "u" [] c = "V" -> "v" [] c = "W" -> "w" [] c = "X" -> "x"
      [] c = "Y" -> "y" [] c = "Z" -> "z" [] OTHER -> c

\* str.lower()
Lower(s) == [i \in 1..Len(s) |-> LowerChar(s[i])]

\* needle in hay
Contains(hay, needle) ==
    \E i \in 1..(Len(hay) - Len(needle) + 1) :
        SubSeq(hay, i, i + Len(needle) - 1) = needle

(***************************************************************************)
(* The texts the host sends: chat messages, queries and clipboard text.    *)
(***************************************************************************)
TxtHi == <<"H", "i">>
TxtHiLower == <<"h", "i">>
TxtGitHub == <<"G", "i", "t", "H", "u", "b">>
TxtRepo == <<"r", "e", "p", "o">>
TxtGitHubSpaced == <<"g", "i", "t", " ", "h", "u", "b">>
Texts == {TxtHi, TxtHiLower, TxtGitHub, TxtRepo}
Apps == {"Xcode"}
TagLists == {<<>>}

(***************************************************************************)
(* sidecar/lancedb_store.py                                                *)
(***************************************************************************)
table_name == "clipboard_memory"

\* the dummy item that fixes the schema; its vector is all zeros
dummy_vector == <<0, 0>>
schema_data ==
    <<[id |-> "init", text_content |-> <<"init">>, timestamp |-> 0,
       source_app |-> "init", tags |-> <<"init">>, vector |-> dummy_vector]>>

\* BAAI/bge-small-en-v1.5 is an uncased model: its tokenizer lower-cases the
\* text, so texts that differ in case only get the same vector.  The vectors
\* are normalised (here to length 5) and the dummy vector is not.
embedding_model(text) ==
    LET tokens == Lower(text) IN
    CASE tokens = <<"h", "i">> -> <<5, 0>>
      [] tokens = <<"g", "i", "t", "h", "u", "b">> -> <<4, 3>>
      [] tokens = <<"r", "e", "p", "o">> -> <<0, 5>>
      [] OTHER -> <<3, 4>>

embed(text) == embedding_model(text)

\* the squared L2 distance LanceDB ranks by
Distance(v, w) ==
    (v[1] - w[1]) * (v[1] - w[1]) + (v[2] - w[2]) * (v[2] - w[2])

\* an id drawn once, when the module is loaded, and used for every item
uuid4_AtImport(n) == "uuid-0"

\* str(uuid.uuid4()): a fresh id, never the reserved "init"
uuid4(n) == "uuid-" \o ToString(n)

TableExists == table_name \in DOMAIN db
Rows == IF TableExists THEN db[table_name] ELSE <<>>

\* db.create_table(table_name, data=data, mode="overwrite"): a table of
\* that name is replaced when there is one
create_table(d, data) ==
    [n \in DOMAIN d \cup {table_name} |-> IF n = table_name THEN data ELSE d[n]]

\* an initialization that creates the table without looking for it first
init_table_Unchecked(d) == create_table(d, schema_data)

\* LanceDBStore._init_table: the table after the call
init_table(d) ==
    IF table_name \notin DOMAIN d
    THEN create_table(d, schema_data)
    ELSE d

\* the row add_item builds
new_item(text, source_app, tags, n) ==
    [id |-> uuid4(n), text_content |-> text, timestamp |-> n,
     source_app |-> source_app, tags |-> tags, vector |-> embed(text)]

\* tbl.add([item])
tbl_add(d, item) == [d EXCEPT ![table_name] = Append(@, item)]

\* rows in any order, whatever their distance
Orders_Unranked(rows, qv) == Permutations(1..Len(rows))

\* tbl.search(query_vector).limit(limit).to_list(): the limit nearest rows,
\* nearest first; rows at the same distance come in an order the engine
\* chooses, so every order that respects the distances is possible.
Orders(rows, qv) ==
    {p \in Permutations(1..Len(rows)) :
        \A i, j \in 1..Len(rows) :
            i < j => Distance(rows[p[i]].vector, qv) <= Distance(rows[p[j]].vector, qv)}

tbl_search(rows, qv, limit) ==
    {[i \in 1..Min(limit, Len(rows)) |-> rows[p[i]]] : p \in Orders(rows, qv)}

\* a filter that looks for the sentinel under another spelling of its id
IsNotInit_Capitalised(r) == r.id # "Init"

IsNotInit(r) == r.id # "init"

\* results returned as the engine gave them
cleaned_results_Unfiltered(results) == results

\* cleaned_results = [r for r in results if r['id'] != 'init']
cleaned_results(results) == SelectSeq(results, IsNotInit)

\* LanceDBStore.search: the lists the call may return
search(rows, query, limit) ==
    {cleaned_results(results) : results \in tbl_search(rows, embed(query), limit)}

\* an endpoint that reports a failed add as an ordinary answer
add_memory_response_Swallowed(ok, item_id, error) ==
    [status |-> 200, body |-> [status |-> IF ok THEN "success" ELSE "error", id |-> item_id],
     detail |-> ""]

\* sidecar/main.py add_memory_item: the answer of POST /v1/memory/add,
\* {"status": "success", "id": item_id} or HTTPException(500, detail=str(e))
add_memory_response(ok, item_id, error) ==
    IF ok
    THEN [status |-> 200, body |-> [status |-> "success", id |-> item_id], detail |-> ""]
    ELSE [status |-> 500, body |-> [status |-> "", id |-> ""], detail |-> error]

NoOp == [op |-> "none", arg |-> <<>>, limit |-> 0, ok |-> TRUE,
         error |-> "", id |-> "", results |-> <<>>,
         http |-> [status |-> 0, body |-> [status |-> "", id |-> ""], detail |-> ""]]

\* LanceDBStore.__init__ -> _init_table (at import, and again when the
\* sidecar is started again on the same data directory)
InitTable ==
    /\ disk = "ok"
    /\ db' = init_table(db)
    /\ last_op' = [NoOp EXCEPT !.op = "init_table",
                               !.id = IF TableExists THEN "exists" ELSE "created"]
    /\ UNCHANGED <<GROK_API_KEY, api_key, uuid_count, req, other, agent, disk, boot>>

\* POST /v1/memory/add -> LanceDBStore.add_item returning the new id
AddItem(text, source_app, tags) ==
    /\ TableExists
    /\ disk = "ok"
    /\ Len(Rows) <= MaxItems
    /\ db' = tbl_add(db, new_item(text, source_app, tags, uuid_count + 1))
    /\ uuid_count' = uuid_count + 1
    /\ last_op' = [NoOp EXCEPT !.op = "add_item", !.arg = text,
                               !.id = uuid4(uuid_count + 1),
                               !.http = add_memory_response(TRUE, uuid4(uuid_count + 1), "")]
    /\ UNCHANGED <<GROK_API_KEY, api_key, req, other, agent, disk, boot>>

\* POST /v1/memory/add -> LanceDBStore.add_item raising: the embedding
\* model fails (line 59), before the id is drawn, or the table cannot be
\* opened or written (lines 71-72), after the id was drawn at line 60 and
\* the id is lost; nothing is stored
AddItemFails(text, error) ==
    /\ TableExists
    /\ error = "StoreError" => uuid_count < MaxIds
    /\ uuid_count' = IF error = "EmbeddingError" THEN uuid_count ELSE uuid_count + 1
    /\ last_op' = [NoOp EXCEPT !.op = "add_item", !.arg = text,
                               !.ok = FALSE, !.error = error,
                               !.http = add_memory_response(FALSE, "", error)]
    /\ UNCHANGED <<GROK_API_KEY, api_key, db, req, other, agent, disk, boot>>

\* LanceDBStore.search called directly
Search(query, limit) ==
    /\ TableExists
    /\ disk = "ok"
    /\ \E results \in search(Rows, query, limit) :
          last_op' = [NoOp EXCEPT !.op = "search", !.arg = query,
                                  !.limit = limit, !.results = results]
    /\ UNCHANGED <<GROK_API_KEY, api_key, db, uuid_count, req, other, agent, disk, boot>>

\* LanceDBStore.search raising: the embedding model fails (line 77)
SearchFails(query, limit) ==
    /\ TableExists
    /\ last_op' = [NoOp EXCEPT !.op = "search", !.arg = query, !.limit = limit,
                               !.ok = FALSE, !.error = "EmbeddingError"]
    /\ UNCHANGED <<GROK_API_KEY, api_key, db, uuid_count, req, other, agent, disk, boot>>

StoreErrors == {"EmbeddingError", "StoreError"}

\* the data directory stops being readable and writable while what it holds
\* stays (its volume is gone, or its permissions changed), and comes back.
\* A directory that was removed is not in this state: os.makedirs and
\* lancedb.connect (lines 24-25) make it anew and the next start creates
\* the table again, as from Init.
DiskFails ==
    /\ disk = "ok"
    /\ disk' = "failed"
    /\ UNCHANGED <<GROK_API_KEY, api_key, db, uuid_count, last_op, req, other, agent, boot>>

DiskRecovers ==
    /\ disk = "failed"
    /\ disk' = "ok"
    /\ UNCHANGED <<GROK_API_KEY, api_key, db, uuid_count, last_op, req, other, agent, boot>>

\* LanceDBStore.__init__ raising on a start: os.makedirs or lancedb.connect
\* fails (lines 24-25), before the table is looked for and so whether or not
\* it exists, or table_names or create_table fails (lines 36, 48); the
\* import of lancedb_store fails and with it the import of main, so the
\* process ends before it serves anything, and the table is as it was
InitTableFails ==
    /\ disk = "failed"
    /\ last_op' = [NoOp EXCEPT !.op = "init_table", !.ok = FALSE, !.error = "StoreError"]
    /\ UNCHANGED <<GROK_API_KEY, api_key, db, uuid_count, req, other, agent, disk, boot>>

(***************************************************************************)
(* Several sidecar processes started on one data directory: each builds    *)
(* its own LanceDBStore, and _init_table is a test (line 36) followed by a *)
(* creation (line 48) with nothing that makes the two one step.            *)
(*   boot[p]: "down"    the process is not running                         *)
(*            "absent"  it found no table at line 36 and is about to create*)
(*            "created" it is up and has created the table                 *)
(*            "found"   it is up and has found the table                   *)
(***************************************************************************)
Up(p) == boot[p] \in {"created", "found"}

\* if self.table_name not in self.db.table_names()
CheckTable(p) ==
    /\ boot[p] = "down"
    /\ boot' = [boot EXCEPT ![p] = IF TableExists THEN "found" ELSE "absent"]
    /\ UNCHANGED <<GROK_API_KEY, api_key, db, uuid_count, last_op, req, other, agent, disk>>

\* self.db.create_table(self.table_name, data=schema_data, mode="overwrite")
CreateTable(p) ==
    /\ boot[p] = "absent"
    /\ db' = create_table(db, schema_data)
    /\ boot' = [boot EXCEPT ![p] = "created"]
    /\ last_op' = [NoOp EXCEPT !.op = "create_table",
                               !.id = IF TableExists THEN "overwrote" ELSE "created"]
    /\ UNCHANGED <<GROK_API_KEY, api_key, uuid_count, req, other, agent, disk>>

\* the process ends; its data directory stays
Exit(p) ==
    /\ Up(p)
    /\ boot' = [boot EXCEPT ![p] = "down"]
    /\ UNCHANGED <<GROK_API_KEY, api_key, db, uuid_count, last_op, req, other, agent, disk>>

\* POST /v1/memory/add served by a process that is up
ServeAddItem(p, text, source_app, tags) ==
    /\ Up(p)
    /\ Len(Rows) <= MaxItems
    /\ db' = tbl_add(db, new_item(text, source_app, tags, uuid_count + 1))
    /\ uuid_count' = uuid_count + 1
    /\ last_op' = [NoOp EXCEPT !.op = "add_item", !.arg = text,
                               !.id = uuid4(uuid_count + 1),
                               !.http = add_memory_response(TRUE, uuid4(uuid_count + 1), "")]
    /\ UNCHANGED <<GROK_API_KEY, api_key, req, other, agent, disk, boot>>

NextBoot ==
    \/ \E p \in Initializers : CheckTable(p)
    \/ \E p \in Initializers : CreateTable(p)
    \/ \E p \in Initializers : Exit(p)
    \/ \E p \in Initializers, text \in Texts, app \in Apps, tags \in TagLists :
          ServeAddItem(p, text, app, tags)

\* the store alone, on a data directory that works: of the failures of
\* add_item only the embedding's happens here, those of the table are in
\* NextHealth with the data directory they come from
NextStore ==
    \/ InitTable
    \/ \E text \in Texts, app \in Apps, tags \in TagLists : AddItem(text, app, tags)
    \/ \E text \in Texts : AddItemFails(text, "EmbeddingError")
    \/ \E query \in Texts, limit \in 1..MaxLimit : Search(query, limit)
    \/ \E query \in Texts, limit \in 1..MaxLimit : SearchFails(query, limit)

(***************************************************************************)
(* sidecar/letta_agent.py                                                  *)
(***************************************************************************)
persona_block ==
    <<"You are Clippy, a helpful, slightly mischievous de",
      "sktop assistant for macOS. You have a dry sense of humor. You love helping developers. You prefer concise answers but occasionally make a paperclip joke.">>

human_block ==
    <<"User is a developer working on a hackathon project. They are using Swift and Python.">>

\* api_key = os.environ.get("GROK_API_KEY") or "xai-dummy-key"
client_api_key(env) ==
    IF env.type = "NoneType" \/ env.value = <<>> THEN <<"xai-dummy-key">>
    ELSE env.value

\* a mock test that looks for an empty key instead of the dummy key
is_mock_EmptyKey(key) == key = <<>>

\* self.client.api_key == "xai-dummy-key"
is_mock(key) == key = <<"xai-dummy-key">>

\* self.tools: the two declared functions and the argument each requires
tools ==
    <<[type |-> "function",
       function |-> [name |-> "search_github", required |-> <<"query">>]],
      [type |-> "function",
       function |-> [name |-> "paste_to_app", required |-> <<"content">>]]>>

\* LettaLiteAgent.__init__: the attributes of the singleton
LettaLiteAgent ==
    [persona_block |-> persona_block, human_block |-> human_block,
     scratchpad_block |-> <<>>, tools |-> tools]

\* dict.get(key, default)
Get(dict, key, default) == IF key \in DOMAIN dict THEN dict[key] ELSE default

\* one line of the clipboard history
clipboard_line(item) ==
    <<"- [">> \o Format(Get(item, "timestamp", None)) \o <<"] ">>
        \o Slice(Get(item, "content", <<>>), 200) \o <<"\n">>

RECURSIVE clipboard_lines(_)
clipboard_lines(items) ==
    IF items = <<>> THEN <<>>
    ELSE clipboard_line(Head(items)) \o clipboard_lines(Tail(items))

rag_text(clipboard_context) ==
    IF clipboard_context = <<>> THEN <<>>
    ELSE <<"\nRELEVANT CLIPBOARD HISTORY:\n">> \o clipboard_lines(clipboard_context)

\* LettaLiteAgent._construct_system_prompt
construct_system_prompt(context) ==
    LET app_name == Get(context, "app_name", <<"Unknown">>)
        clipboard_context == Get(context, "clipboard_items", <<>>)
    IN  <<"SYSTEM MEMORY:\n", "[PERSONA]\n">> \o agent.persona_block \o <<"\n\n">>
        \o <<"[HUMAN]\n">> \o agent.human_block \o <<"\n\n">>
        \o <<"[CONTEXT]\nUser is currently using: ">> \o app_name \o <<"\n">>
        \o rag_text(clipboard_context) \o <<"\n">>
        \o <<"INSTRUCTIONS:\n",
             "Answer the user's query based on your memory and the context provided. ",
             "You can update your memory if you learn something new about the user or yourself.">>

RECURSIVE result_lines(_)
result_lines(search_results) ==
    IF search_results = <<>> THEN <<>>
    ELSE <<"- ">> \o Slice(Head(search_results).text_content, 100) \o <<"...\n">>
         \o result_lines(Tail(search_results))

formatted_results(search_results) ==
    <<"\nARCHIVAL MEMORY SEARCH RESULTS:\n">> \o result_lines(search_results)

\* a message list whose system prompt starts with the memory block
first_messages_MemoryFirst(message, context, search_results) ==
    <<[role |-> "system",
       content |-> formatted_results(search_results) \o construct_system_prompt(context)],
      [role |-> "user", content |-> message]>>

\* messages = [system, user] (lines 152-158)
first_messages(message, context, search_results) ==
    <<[role |-> "system",
       content |-> construct_system_prompt(context) \o formatted_results(search_results)],
      [role |-> "user", content |-> message]>>

\* a mock response that echoes the lower-cased message
mock_response_Lowered(message) ==
    <<"I'm in Mock Mode (No Grok API Key found). ", "I heard you say: '">>
        \o Lower(message) \o <<"'. ", "My persona is: ">>
        \o Slice(agent.persona_block, 50) \o <<"...">>

\* LettaLiteAgent._mock_response
mock_response(message) ==
    <<"I'm in Mock Mode (No Grok API Key found). ", "I heard you say: '">>
        \o message \o <<"'. ", "My persona is: ">>
        \o Slice(agent.persona_block, 50) \o <<"...">>

github_mock_response ==
    <<"I'm in Mock Mode. I would search GitHub for that. (Set GROK_API_KEY for real tools)">>

\* the mock branch of process_message (lines 164-168)
mock_result(message) ==
    IF Contains(Lower(message), <<"g", "i", "t", "h", "u", "b">>)
    THEN [response |-> Str(github_mock_response), tool_calls |-> <<>>]
    ELSE [response |-> Str(mock_response(message)), tool_calls |-> <<>>]

\* LettaLiteAgent._execute_search_github: json.dumps of the simulated results
execute_search_github(query) ==
    <<"{\"results\": [{\"name\": \"">> \o Format(query)
        \o <<"-lib\", \"url\": \"https://github.com/example/">> \o Format(query)
        \o <<"-lib\", \"stars\": 1200}, {\"name\": \"awesome-">> \o Format(query)
        \o <<"\", \"url\": \"https://github.com/example/awesome-">> \o Format(query)
        \o <<"\", \"stars\": 4500}]}">>

\* a final return that formats the content, so that None becomes "None"
text_result_Formatted(response_message) ==
    [response |-> Str(Format(response_message.content)), tool_calls |-> <<>>]

\* the final return of process_message (lines 235-238)
text_result(response_message) ==
    [response |-> response_message.content, tool_calls |-> <<>>]

\* the return after the second call (lines 230-233)
second_result(second_response) ==
    [response |-> second_response.choices[1].message.content, tool_calls |-> <<>>]

\* an except branch that drops the error detail
error_result_NoDetail(e) ==
    [response |-> Str(<<"I tried to think, but my brain (Grok API) hurt. Error: ">>),
     tool_calls |-> <<>>]

\* the except branch of process_message (lines 240-245)
error_result(e) ==
    [response |-> Str(<<"I tried to think, but my brain (Grok API) hurt. Error: ">> \o e),
     tool_calls |-> <<>>]

\* what the model may put in function.arguments, and json.loads of each
ArgQuery == "{\"query\": \"swift\"}"
ArgContent == "{\"content\": \"Hello World\"}"
ArgTruncated == "{\"query\":"
ArgList == "[]"
ArgTexts == {ArgQuery, ArgContent, ArgTruncated, ArgList}

json_loads(text) ==
    CASE text = ArgQuery -> [kind |-> "dict", value |-> [query |-> Str(<<"swift">>)]]
      [] text = ArgContent -> [kind |-> "dict", value |-> [content |-> Str(<<"Hello World">>)]]
      [] text = ArgList -> [kind |-> "list", value |-> <<>>]
      [] OTHER -> [kind |-> "JSONDecodeError",
                   value |-> <<"Expecting value: line 1 column 10 (char 9)">>]

\* the tool result turn appended for a search_github call (lines 197-202)
tool_turn(tool_call, tool_result) ==
    [tool_call_id |-> tool_call.id, role |-> "tool", name |-> "search_github",
     content |-> tool_result]

\* an entry that names the tool and loses its arguments
client_tool_call_NoArgs(function_args) ==
    [name |-> "paste_to_app", parameters |-> <<>>]

\* the entry handed to the host for a paste_to_app call (lines 212-215)
client_tool_call(function_args) ==
    [name |-> "paste_to_app", parameters |-> function_args]

\* the return of the paste_to_app branch (lines 219-222)
paste_result(client_tool_calls) ==
    [response |-> Str(<<"I'm pasting that for you.">>), tool_calls |-> client_tool_calls]

\* a search_github branch that asks for the second pass without waiting for
\* the result of the search
search_github_branch_NoResult(st, tool_call, function_args) ==
    IF function_args.kind # "dict"
    THEN [st EXCEPT !.exit = "raise",
                    !.error = <<"'list' object has no attribute 'get'">>]
    ELSE [st EXCEPT !.requires_second_pass = TRUE]

\* the search_github branch (lines 194-203): run the search, append its
\* result turn, ask for a second pass
search_github_branch(st, tool_call, function_args) ==
    IF function_args.kind # "dict"
    THEN [st EXCEPT !.exit = "raise",
                    !.error = <<"'list' object has no attribute 'get'">>]
    ELSE LET query == Get(function_args.value, "query", None)
             tool_result == execute_search_github(query)
         IN  [st EXCEPT
                !.trace = Append(@, [ev |-> "search_github", id |-> tool_call.id,
                                     query |-> query]),
                !.messages = Append(@, tool_turn(tool_call, tool_result)),
                !.requires_second_pass = TRUE]

\* a paste_to_app branch that packages the call and goes on with the batch
paste_to_app_branch_NoReturn(st, tool_call, function_args) ==
    [st EXCEPT
       !.trace = Append(@, [ev |-> "delegate", id |-> tool_call.id]),
       !.client_tool_calls = Append(@, client_tool_call(function_args.value))]

\* the paste_to_app branch (lines 206-222): package the call and return
paste_to_app_branch(st, tool_call, function_args) ==
    [st EXCEPT
       !.trace = Append(@, [ev |-> "delegate", id |-> tool_call.id]),
       !.client_tool_calls = Append(@, client_tool_call(function_args.value)),
       !.exit = "return"]

\* one round of "for tool_call in response_message.tool_calls" (lines 190-222);
\* st.exit says how the loop was left: "" (still running), "return", "raise"
tool_call_step(st, tool_call) ==
    LET function_args == json_loads(tool_call.function.arguments) IN
    IF function_args.kind = "JSONDecodeError"
    THEN [st EXCEPT !.exit = "raise", !.error = function_args.value]
    ELSE IF tool_call.function.name = "search_github"
    THEN search_github_branch(st, tool_call, function_args)
    ELSE IF tool_call.function.name = "paste_to_app"
    THEN paste_to_app_branch(st, tool_call, function_args)
    ELSE st

RECURSIVE tool_call_loop(_, _)
tool_call_loop(st, tool_calls) ==
    IF tool_calls = <<>> \/ st.exit # "" THEN st
    ELSE tool_call_loop(tool_call_step(st, Head(tool_calls)), Tail(tool_calls))

\* self.client.chat.completions.create(...): the call as the API sees it
create_call(model, messages, with_tools) ==
    [ev |-> "create", model |-> model, messages |-> messages,
     tools |-> IF with_tools THEN agent.tools ELSE <<>>]

\* a second call that is sent the results without the turn that asked for them
second_messages_NoAssistant(st) ==
    SubSeq(st.messages, 1, 2) \o SubSeq(st.messages, 4, Len(st.messages))

\* the message list of the second call (line 228)
second_messages(st) == st.messages

(***************************************************************************)
(* What the chat capability may answer.                                    *)
(***************************************************************************)
\* the calls the model may request: each declared tool and one undeclared
\* tool, with arguments that hold the required argument, lack it, are no
\* object, or do not decode
ToolCalls ==
    {<<"search_github", ArgQuery>>, <<"search_github", ArgContent>>,
     <<"search_github", ArgList>>, <<"search_github", ArgTruncated>>,
     <<"paste_to_app", ArgContent>>, <<"paste_to_app", ArgQuery>>,
     <<"paste_to_app", ArgList>>, <<"open_url", ArgQuery>>}
Contents == {None, Str(<<"Sure.">>)}

tool_call_of(i, name, arguments) ==
    [id |-> "call_" \o ToString(i),
     function |-> [name |-> name, arguments |-> arguments]]

Batches ==
    UNION {{[i \in 1..n |-> tool_call_of(i, f[i][1], f[i][2])] :
               f \in [1..n -> ToolCalls]} : n \in 1..MaxBatch}

\* completion.choices[0].message
FirstMessages ==
    {[role |-> "assistant", content |-> c, tool_calls |-> b] :
        c \in Contents, b \in Batches \cup {<<>>}}
SecondMessages ==
    {[role |-> "assistant", content |-> c, tool_calls |-> <<>>] : c \in Contents}

Raise(detail) == [kind |-> "raise", detail |-> detail, choices |-> <<>>]
Completion(choices) == [kind |-> "completion", detail |-> <<>>, choices |-> choices]

Failures == {Raise(<<"Connection error.">>), Completion(<<>>)}
FirstOutcomes == Failures \cup {Completion(<<[message |-> m]>>) : m \in FirstMessages}
SecondOutcomes == Failures \cup {Completion(<<[message |-> m]>>) : m \in SecondMessages}

\* str(e) of the exception a failed call surfaces as: the one the client
\* raised, or the IndexError of choices[0] on a reply without choices
failure_detail(outcome) ==
    IF outcome.kind = "raise" THEN outcome.detail
    ELSE <<"list index out of range">>

Failed(outcome) == outcome.kind = "raise" \/ outcome.choices = <<>>

(***************************************************************************)
(* sidecar/main.py: the response the endpoint sends.                       *)
(***************************************************************************)
\* AgentMessageResponse(response=..., tool_calls=...): response must be a str
agent_message_response(result) ==
    IF result.response.type = "str"
    THEN [status |-> 200, response |-> result.response, tool_calls |-> result.tool_calls,
          detail |-> <<>>]
    ELSE [status |-> 500, response |-> None, tool_calls |-> <<>>,
          detail |-> <<"Internal Server Error">>]

http_error(detail) ==
    [status |-> 500, response |-> None, tool_calls |-> <<>>, detail |-> detail]

NoResult == [response |-> None, tool_calls |-> <<>>]
NoHttp == [status |-> 0, response |-> None, tool_calls |-> <<>>, detail |-> <<>>]

\* a request in flight: pc is where its coroutine stands
\*   "idle" | "first_call" | "second_call" | "vision_call" | "returned" | "raised"
Idle ==
    [kind |-> "none", pc |-> "idle", message |-> <<>>, context |-> <<>>,
     image |-> <<>>, retrieved |-> <<>>, messages |-> <<>>, trace |-> <<>>, first |-> <<>>,
     second |-> <<>>, result |-> NoResult, error |-> <<>>, http |-> NoHttp]

\* the sidecar serves once lancedb_store and letta_agent are imported, that
\* is once the store is constructed, and takes the next request when the
\* one before is answered
Free == TableExists /\ req.pc = "idle"

Messages == {TxtHi, TxtGitHub, TxtGitHubSpaced}
Contexts ==
    {<<>>,
     [app_name |-> <<"Xcode">>,
      clipboard_items |-> <<[content |-> TxtRepo, timestamp |-> Str(<<"09:41">>)]>>]}

Returned(r, result) ==
    [r EXCEPT !.pc = "returned", !.result = result,
              !.http = agent_message_response(result)]

\* an agent that keeps the last message in its scratchpad
agent_after_Noted(self, message) == [self EXCEPT !.scratchpad_block = message]

\* the attributes of the agent after process_message or process_vision:
\* neither assigns an attribute of self
agent_after(self, message) == self

\* process_message up to its first await, for the items search gave
start_message(message, context, search_results) ==
    LET messages == first_messages(message, context, search_results)
        r == [Idle EXCEPT !.kind = "message", !.message = message,
                          !.context = context, !.retrieved = search_results,
                          !.messages = messages]
    IN  IF is_mock(api_key)
        THEN Returned(r, mock_result(message))
        ELSE [r EXCEPT !.pc = "first_call",
                       !.trace = <<create_call("grok-beta", messages, TRUE)>>]

\* POST /v1/agent/message -> process_message, up to its first await
ProcessMessage(message, context) ==
    /\ Free
    /\ disk = "ok"
    /\ \E search_results \in search(Rows, message, 3) :
          req' = start_message(message, context, search_results)
    /\ agent' = agent_after(agent, message)
    /\ UNCHANGED <<GROK_API_KEY, api_key, db, uuid_count, last_op, other, disk, boot>>

\* store.search raises inside process_message (line 146, outside the try):
\* the exception leaves process_message and the endpoint
ProcessMessageSearchFails(message, context) ==
    /\ Free
    /\ req' = [Idle EXCEPT !.kind = "message", !.message = message,
                           !.context = context, !.pc = "raised",
                           !.error = <<"EmbeddingError">>,
                           !.http = http_error(<<"Internal Server Error">>)]
    /\ UNCHANGED <<GROK_API_KEY, api_key, db, uuid_count, last_op, other, agent, disk, boot>>

\* process_message from the first reply to its return or its second await
after_first_reply(r, outcome) ==
    IF Failed(outcome) THEN Returned(r, error_result(failure_detail(outcome)))
    ELSE
    LET response_message == outcome.choices[1].message IN
    IF response_message.tool_calls = <<>>
    THEN Returned(r, text_result(response_message))
    ELSE
    LET st0 == [messages |-> Append(r.messages, response_message), trace |-> r.trace,
                requires_second_pass |-> FALSE, client_tool_calls |-> <<>>,
                exit |-> "", error |-> <<>>]
        st == tool_call_loop(st0, response_message.tool_calls)
        r1 == [r EXCEPT !.messages = st.messages, !.trace = st.trace]
    IN  IF st.exit = "raise" THEN Returned(r1, error_result(st.error))
        ELSE IF st.exit = "return" THEN Returned(r1, paste_result(st.client_tool_calls))
        ELSE IF st.requires_second_pass
        THEN [r1 EXCEPT !.pc = "second_call",
                        !.trace = Append(@, create_call("grok-beta", second_messages(st), FALSE))]
        ELSE Returned(r1, text_result(response_message))

FirstReply(outcome) ==
    /\ req.pc = "first_call"
    /\ req' = after_first_reply([req EXCEPT !.first = outcome], outcome)
    /\ UNCHANGED <<GROK_API_KEY, api_key, db, uuid_count, last_op, other, agent, disk, boot>>

\* process_message from the second reply to its return (lines 226-233)
after_second_reply(r, outcome) ==
    IF Failed(outcome) THEN Returned(r, error_result(failure_detail(outcome)))
    ELSE Returned(r, second_result(outcome))

SecondReply(outcome) ==
    /\ req.pc = "second_call"
    /\ req' = after_second_reply([req EXCEPT !.second = outcome], outcome)
    /\ UNCHANGED <<GROK_API_KEY, api_key, db, uuid_count, last_op, other, agent, disk, boot>>

(***************************************************************************)
(* process_vision and the remaining endpoints.                             *)
(***************************************************************************)
B64 ==
    <<"A", "B", "C", "D", "E", "F", "G", "H", "I", "J", "K", "L", "M", "N", "O", "P",
      "Q", "R", "S", "T", "U", "V", "W", "X", "Y", "Z", "a", "b", "c", "d", "e", "f",
      "g", "h", "i", "j", "k", "l", "m", "n", "o", "p", "q", "r", "s", "t", "u", "v",
      "w", "x", "y", "z", "0", "1", "2", "3", "4", "5", "6", "7", "8", "9", "+", "/">>

\* base64.b64encode(image_data).decode('utf-8')
RECURSIVE b64encode(_)
b64encode(bytes) ==
    IF bytes = <<>> THEN <<>>
    ELSE IF Len(bytes) = 1
    THEN <<B64[(bytes[1] \div 4) + 1], B64[(bytes[1] % 4) * 16 + 1], "=", "=">>
    ELSE IF Len(bytes) = 2
    THEN <<B64[(bytes[1] \div 4) + 1],
           B64[(bytes[1] % 4) * 16 + (bytes[2] \div 16) + 1],
           B64[(bytes[2] % 16) * 4 + 1], "=">>
    ELSE <<B64[(bytes[1] \div 4) + 1],
           B64[(bytes[1] % 4) * 16 + (bytes[2] \div 16) + 1],
           B64[(bytes[2] % 16) * 4 + (bytes[3] \div 64) + 1],
           B64[(bytes[3] % 64) + 1]>> \o b64encode(SubSeq(bytes, 4, Len(bytes)))

\* the single user turn of a vision request (lines 110-123)
vision_messages(image_data) ==
    <<[role |-> "user",
       content |->
         <<[type |-> "text",
            text |-> <<"Describe this image in detail for a blind user. Focus on UI elements, text hierarchy, and visible content.">>],
           [type |-> "image_url",
            url |-> <<"data:image/jpeg;base64,">> \o b64encode(image_data)]>>]>>

mock_vision_response ==
    <<"I see an image! (Mock Vision Response - Set GROK_API_KEY to use Grok Vision)">>

\* the except branch of process_vision (lines 133-135)
vision_error(e) ==
    <<"I tried to look, but my eyes (Grok Vision) failed. Error: ">> \o e

\* str(e) of the pydantic ValidationError that AgentMessageResponse raises
\* for response=None: the count and the model, the field, the violation
\* with its type and input, and the link to its documentation (the wording
\* is that of pydantic 2.13)
response_validation_error ==
    <<"1 validation error for AgentMessageResponse\nresponse\n  Input should be a valid string [type=string_type, input_value=None, input_type=NoneType]\n    For further information visit https://errors.pydantic.dev/2.13/v/string_type">>

\* agent_vision: AgentMessageResponse(response=response_text, tool_calls=[]),
\* whose validation error is caught and becomes a 500 with detail=str(e)
agent_vision_response(response_text) ==
    IF response_text.type = "str"
    THEN [status |-> 200, response |-> response_text, tool_calls |-> <<>>, detail |-> <<>>]
    ELSE http_error(response_validation_error)

VisionReturned(r, response_text) ==
    [r EXCEPT !.pc = "returned",
              !.result = [response |-> response_text, tool_calls |-> <<>>],
              !.http = agent_vision_response(response_text)]

Images == {<<>>, <<255>>, <<77, 97, 110, 121>>}

\* process_vision up to its await
start_vision(image_data) ==
    LET r == [Idle EXCEPT !.kind = "vision", !.image = image_data] IN
    IF is_mock(api_key)
    THEN VisionReturned(r, Str(mock_vision_response))
    ELSE [r EXCEPT !.pc = "vision_call",
                   !.messages = vision_messages(image_data),
                   !.trace = <<create_call("grok-2-vision-1212",
                                           vision_messages(image_data), FALSE)>>]

\* POST /v1/agent/vision -> process_vision, up to its await
ProcessVision(image_data) ==
    /\ Free
    /\ req' = start_vision(image_data)
    /\ agent' = agent_after(agent, <<>>)
    /\ UNCHANGED <<GROK_API_KEY, api_key, db, uuid_count, last_op, other, disk, boot>>

\* process_vision from the reply to its return (lines 131-135)
after_vision_reply(r, outcome) ==
    IF Failed(outcome) THEN VisionReturned(r, Str(vision_error(failure_detail(outcome))))
    ELSE VisionReturned(r, outcome.choices[1].message.content)

VisionReply(outcome) ==
    /\ req.pc = "vision_call"
    /\ req' = after_vision_reply([req EXCEPT !.first = outcome], outcome)
    /\ UNCHANGED <<GROK_API_KEY, api_key, db, uuid_count, last_op, other, agent, disk, boot>>

\* health_check: the body of GET /health, the same whatever the state
health_check ==
    [status |-> "ok", service |-> "Clippy Sidecar", letta |-> "initialized",
     lancedb |-> "connected"]

\* GET /health
HealthCheck ==
    /\ Free
    /\ req' = [Idle EXCEPT
                 !.kind = "health", !.pc = "returned",
                 !.http = [status |-> 200, response |-> None, tool_calls |-> <<>>,
                           detail |-> <<>>, body |-> health_check]]
    /\ UNCHANGED <<GROK_API_KEY, api_key, db, uuid_count, last_op, other, agent, disk, boot>>

\* POST /v1/agent/reflect: LettaLiteAgent defines no run_reflector, so the
\* attribute lookup raises and the endpoint answers 500
Reflect ==
    /\ Free
    /\ req' = [Idle EXCEPT
                 !.kind = "reflect", !.pc = "raised",
                 !.error = <<"'LettaLiteAgent' object has no attribute 'run_reflector'">>,
                 !.http = http_error(<<"'LettaLiteAgent' object has no attribute 'run_reflector'">>)]
    /\ UNCHANGED <<GROK_API_KEY, api_key, db, uuid_count, last_op, other, agent, disk, boot>>

\* the endpoint hands its response (or the error) to the transport and the
\* request is over
Respond ==
    /\ req.pc \in {"returned", "raised"}
    /\ req' = Idle
    /\ UNCHANGED <<GROK_API_KEY, api_key, db, uuid_count, last_op, other, agent, disk, boot>>

EnvKeys == {None, Str(<<>>), Str(<<"xai-live-key">>)}

StoreTexts == {TxtHi}

Init ==
    /\ GROK_API_KEY \in EnvKeys
    /\ api_key = client_api_key(GROK_API_KEY)
    /\ db = <<>>
    /\ uuid_count = 0
    /\ last_op = NoOp
    /\ req = Idle
    /\ other = Idle
    /\ agent = LettaLiteAgent
    /\ disk = "ok"
    /\ boot = [p \in Initializers |-> "down"]

Next ==
    \/ InitTable
    \/ \E text \in StoreTexts, app \in Apps, tags \in TagLists : AddItem(text, app, tags)
    \/ \E message \in Messages, context \in Contexts : ProcessMessage(message, context)
    \/ \E message \in Messages, context \in Contexts :
          ProcessMessageSearchFails(message, context)
    \/ \E outcome \in FirstOutcomes : FirstReply(outcome)
    \/ \E outcome \in SecondOutcomes : SecondReply(outcome)
    \/ \E image_data \in Images : ProcessVision(image_data)
    \/ \E outcome \in SecondOutcomes : VisionReply(outcome)
    \/ Reflect
    \/ HealthCheck
    \/ Respond

Spec == Init /\ [][Next]_vars

(***************************************************************************)
(* Two requests served concurrently: the endpoints are coroutines of one   *)
(* event loop, so a second request may start and run while the first waits *)
(* at an await of process_message or process_vision.  other is the second  *)
(* request; it goes through the same code as req.                          *)
(***************************************************************************)
OtherFree == TableExists /\ other.pc = "idle"

OtherProcessMessage(message, context) ==
    /\ OtherFree
    /\ disk = "ok"
    /\ \E search_results \in search(Rows, message, 3) :
          other' = start_message(message, context, search_results)
    /\ agent' = agent_after(agent, message)
    /\ UNCHANGED <<GROK_API_KEY, api_key, db, uuid_count, last_op, req, disk, boot>>

OtherFirstReply(outcome) ==
    /\ other.pc = "first_call"
    /\ other' = after_first_reply([other EXCEPT !.first = outcome], outcome)
    /\ UNCHANGED <<GROK_API_KEY, api_key, db, uuid_count, last_op, req, agent, disk, boot>>

OtherSecondReply(outcome) ==
    /\ other.pc = "second_call"
    /\ other' = after_second_reply([other EXCEPT !.second = outcome], outcome)
    /\ UNCHANGED <<GROK_API_KEY, api_key, db, uuid_count, last_op, req, agent, disk, boot>>

OtherProcessVision(image_data) ==
    /\ OtherFree
    /\ other' = start_vision(image_data)
    /\ agent' = agent_after(agent, <<>>)
    /\ UNCHANGED <<GROK_API_KEY, api_key, db, uuid_count, last_op, req, disk, boot>>

OtherVisionReply(outcome) ==
    /\ other.pc = "vision_call"
    /\ other' = after_vision_reply([other EXCEPT !.first = outcome], outcome)
    /\ UNCHANGED <<GROK_API_KEY, api_key, db, uuid_count, last_op, req, agent, disk, boot>>

OtherRespond ==
    /\ other.pc \in {"returned", "raised"}
    /\ other' = Idle
    /\ UNCHANGED <<GROK_API_KEY, api_key, db, uuid_count, last_op, req, agent, disk, boot>>

\* the requests and the replies of the concurrent runs: a text reply, a
\* search, a search followed by a paste, and a failure
ConcMessages == {TxtHi, TxtGitHub}
ConcImages == {<<255>>}
ConcBatches ==
    {<<>>,
     <<tool_call_of(1, "search_github", ArgQuery)>>,
     <<tool_call_of(1, "search_github", ArgQuery), tool_call_of(2, "paste_to_app", ArgContent)>>}
ConcFirstOutcomes ==
    {Raise(<<"Connection error.">>)}
        \cup {Completion(<<[message |-> [role |-> "assistant", content |-> Str(<<"Sure.">>),
                                         tool_calls |-> b]]>>) : b \in ConcBatches}
ConcSecondOutcomes ==
    {Raise(<<"Connection error.">>),
     Completion(<<[message |-> [role |-> "assistant", content |-> Str(<<"Done.">>),
                                tool_calls |-> <<>>]]>>)}

NextConc ==
    \/ InitTable
    \/ \E text \in StoreTexts, app \in Apps, tags \in TagLists : AddItem(text, app, tags)
    \/ \E message \in ConcMessages, context \in Contexts : ProcessMessage(message, context)
    \/ \E outcome \in ConcFirstOutcomes : FirstReply(outcome)
    \/ \E outcome \in ConcSecondOutcomes : SecondReply(outcome)
    \/ \E image_data \in ConcImages : ProcessVision(image_data)
    \/ \E outcome \in ConcSecondOutcomes : VisionReply(outcome)
    \/ Respond
    \/ \E message \in ConcMessages, context \in Contexts : OtherProcessMessage(message, context)
    \/ \E outcome \in ConcFirstOutcomes : OtherFirstReply(outcome)
    \/ \E outcome \in ConcSecondOutcomes : OtherSecondReply(outcome)
    \/ \E image_data \in ConcImages : OtherProcessVision(image_data)
    \/ \E outcome \in ConcSecondOutcomes : OtherVisionReply(outcome)
    \/ OtherRespond

SpecConc == Init /\ [][NextConc]_vars

(***************************************************************************)
(* A sidecar started on a data directory that earlier runs have filled:    *)
(* the table holds the sentinel and the items added then.                  *)
(***************************************************************************)
StoredTexts == <<TxtHi, TxtHiLower, TxtGitHub, TxtRepo, TxtGitHubSpaced>>

stored_rows(k) ==
    schema_data \o [i \in 1..k |-> new_item(StoredTexts[((i - 1) % Len(StoredTexts)) + 1],
                                            "Xcode", <<>>, i)]

InitStored ==
    /\ GROK_API_KEY \in EnvKeys
    /\ api_key = client_api_key(GROK_API_KEY)
    /\ \E k \in 0..MaxStored :
          /\ db = [n \in {table_name} |-> stored_rows(k)]
          /\ uuid_count = k
    /\ last_op = NoOp
    /\ req = Idle
    /\ other = Idle
    /\ agent = LettaLiteAgent
    /\ disk = "ok"
    /\ boot = [p \in Initializers |-> "down"]

NextPrompt ==
    \/ InitTable
    \/ \E text \in StoreTexts, app \in Apps, tags \in TagLists : AddItem(text, app, tags)
    \/ \E message \in Messages, context \in Contexts : ProcessMessage(message, context)
    \/ \E outcome \in ConcFirstOutcomes : FirstReply(outcome)
    \/ Respond

SpecPrompt == InitStored /\ [][NextPrompt]_vars

\* the sidecar and the data directory it depends on
NextHealth ==
    \/ InitTable
    \/ InitTableFails
    \/ DiskFails
    \/ DiskRecovers
    \/ \E text \in Texts, app \in Apps, tags \in TagLists : AddItem(text, app, tags)
    \/ \E text \in Texts, error \in StoreErrors : AddItemFails(text, error)
    \/ HealthCheck
    \/ Respond

SpecHealth == Init /\ [][NextHealth]_vars

SpecStore == Init /\ [][NextStore]_vars

SpecBoot == Init /\ [][NextBoot]_vars

(***************************************************************************)
(* Properties of process_message in live mode.                             *)
(***************************************************************************)
IsCreate(e) == e.ev = "create"
IsExec(e) == e.ev = "search_github"
ChatCalls == SelectSeq(req.trace, IsCreate)
Executions == SelectSeq(req.trace, IsExec)

Live == api_key # <<"xai-dummy-key">>
NoCredential == GROK_API_KEY.type = "NoneType" \/ GROK_API_KEY.value = <<>>

\* the first call of a chat request has been answered with a message
GotFirstMessage == req.kind = "message" /\ req.first # <<>> /\ ~Failed(req.first)
FirstMessage == req.first.choices[1].message
Batch == FirstMessage.tool_calls
GotSecond == req.second # <<>>

Args(tool_call) == json_loads(tool_call.function.arguments)
IsServerCall(tool_call) == tool_call.function.name = "search_github"
IsClientCall(tool_call) == tool_call.function.name = "paste_to_app"
\* the arguments decode, and to an object where the sidecar reads them
WellFormed(tool_call) ==
    /\ Args(tool_call).kind # "JSONDecodeError"
    /\ IsServerCall(tool_call) => Args(tool_call).kind = "dict"

ServerOnly == Batch # <<>> /\ \A i \in 1..Len(Batch) : IsServerCall(Batch[i])
HasClientCall == \E i \in 1..Len(Batch) : IsClientCall(Batch[i])
FirstClient ==
    CHOOSE i \in 1..Len(Batch) :
        IsClientCall(Batch[i]) /\ \A j \in 1..(i - 1) : ~IsClientCall(Batch[j])

\* the tool-result turn the protocol asks for a search_github call
ResultTurn(tool_call) ==
    [tool_call_id |-> tool_call.id, role |-> "tool", name |-> "search_github",
     content |-> execute_search_github(Get(Args(tool_call).value, "query", None))]

\* [system, user, assistant tool-request turn, one result turn per call]
AugmentedMessages ==
    req.trace[1].messages \o <<FirstMessage>>
        \o [i \in 1..Len(Batch) |-> ResultTurn(Batch[i])]

\* every call of the batch executed, in request order, between the two chat
\* calls, and the second call carries the augmented list and no tool schema
TwoPassTrace ==
    /\ Len(req.trace) = Len(Batch) + 2
    /\ IsCreate(req.trace[1])
    /\ \A i \in 1..Len(Batch) :
          /\ IsExec(req.trace[i + 1])
          /\ req.trace[i + 1].id = Batch[i].id
    /\ IsCreate(req.trace[Len(Batch) + 2])
    /\ req.trace[Len(Batch) + 2].messages = AugmentedMessages

\* C1 as stated: in live mode a first reply that requests only search_github
\* calls makes process_message execute every call, issue exactly one second
\* chat call with [system, user, assistant turn, result turns in order], and
\* return that call's text with an empty client tool-call list.
C1_AsStated ==
    (Live /\ req.pc = "returned" /\ GotFirstMessage /\ ServerOnly)
        => /\ TwoPassTrace
           /\ GotSecond
           /\ ~Failed(req.second)
           /\ req.result = [response |-> req.second.choices[1].message.content,
                            tool_calls |-> <<>>]

\* C1 amended: the same, for a batch whose arguments all decode to an
\* object; the second call is issued once every call has been executed, and
\* its text is the response when it answers, the apology when it fails.
C1_ServerOnlyTwoPass ==
    (Live /\ GotFirstMessage /\ ServerOnly
          /\ \A i \in 1..Len(Batch) : WellFormed(Batch[i]))
        => /\ req.pc \in {"second_call", "returned"}
           /\ TwoPassTrace
           /\ req.pc = "returned" =>
                 /\ GotSecond
                 /\ req.result.tool_calls = <<>>
                 /\ ~Failed(req.second) =>
                       req.result.response = req.second.choices[1].message.content
                 /\ Failed(req.second) =>
                       req.result = error_result(failure_detail(req.second))

C1_Witness ==
    /\ Live /\ req.pc = "returned" /\ GotFirstMessage /\ ServerOnly
    /\ Len(Batch) = 2
    /\ \A i \in 1..Len(Batch) : WellFormed(Batch[i])
    /\ ~Failed(req.second)
    /\ req.result.response = Str(<<"Sure.">>)
    /\ Len(ChatCalls) = 2

\* C2 as stated: when the model requests paste_to_app, the returned client
\* tool-call list holds exactly one entry, named paste_to_app, carrying the
\* arguments the model requested, and the sidecar does not execute the tool.
C2_AsStated ==
    (Live /\ req.pc = "returned" /\ GotFirstMessage /\ HasClientCall)
        => /\ Len(req.result.tool_calls) = 1
           /\ req.result.tool_calls[1].name = "paste_to_app"
           /\ req.result.tool_calls[1].parameters = Args(Batch[FirstClient]).value
           /\ \A k \in 1..Len(Executions) : Executions[k].id # Batch[FirstClient].id

\* C2 amended: the same, when the arguments of the first paste_to_app call
\* and of every call before it decode (to an object for search_github).
C2_ClientCallPackaged ==
    (Live /\ req.pc = "returned" /\ GotFirstMessage /\ HasClientCall
          /\ \A j \in 1..FirstClient : WellFormed(Batch[j]))
        => /\ Len(req.result.tool_calls) = 1
           /\ req.result.tool_calls[1].name = "paste_to_app"
           /\ req.result.tool_calls[1].parameters = Args(Batch[FirstClient]).value
           /\ \A k \in 1..Len(Executions) : Executions[k].id # Batch[FirstClient].id

C2_Witness ==
    /\ Live /\ req.pc = "returned" /\ GotFirstMessage /\ HasClientCall
    /\ Batch[FirstClient].function.arguments = ArgContent
    /\ Len(req.result.tool_calls) = 1
    /\ req.result.tool_calls[1].parameters.content = Str(<<"Hello World">>)

\* the turn ended at the first client call: the acknowledgment and that
\* call are returned, the server calls before it were executed and their
\* results dropped, nothing after it was touched, no second chat call.
EndsAtFirstClient ==
    /\ req.result.response = Str(<<"I'm pasting that for you.">>)
    /\ Len(req.result.tool_calls) = 1
    /\ Len(ChatCalls) = 1
    /\ ~GotSecond
    /\ \A e \in {req.trace[k] : k \in 2..Len(req.trace)} :
          \E j \in 1..FirstClient : e.id = Batch[j].id
    /\ \A j \in 1..(FirstClient - 1) :
          IsServerCall(Batch[j]) => \E k \in 1..Len(Executions) : Executions[k].id = Batch[j].id

\* C3 as stated: every batch that contains a client call ends the turn at
\* the first client call.
C3_AsStated ==
    (Live /\ req.pc = "returned" /\ GotFirstMessage /\ HasClientCall)
        => EndsAtFirstClient

\* C3 amended: every batch that contains a client call, and whose calls up
\* to and including the first client call have arguments that decode (to an
\* object for search_github), ends the turn at the first client call; such
\* a request never waits for a second chat call.
C3_EndsAtFirstClient ==
    (Live /\ GotFirstMessage /\ HasClientCall
          /\ \A j \in 1..FirstClient : WellFormed(Batch[j]))
        => /\ req.pc = "returned"
           /\ EndsAtFirstClient

C3_Witness ==
    /\ Live /\ req.pc = "returned" /\ GotFirstMessage /\ HasClientCall
    /\ FirstClient = 1 /\ Len(Batch) = 2
    /\ IsServerCall(Batch[2]) /\ WellFormed(Batch[2])
    /\ Executions = <<>>
    /\ req.result.response = Str(<<"I'm pasting that for you.">>)

\* C4: in live mode a first reply without tool calls is returned as it is,
\* text unchanged (None included), with an empty client tool-call list and
\* after one chat call only.
C4_TextReply ==
    (Live /\ GotFirstMessage /\ Batch = <<>>)
        => /\ req.pc = "returned"
           /\ req.result = [response |-> FirstMessage.content, tool_calls |-> <<>>]
           /\ Len(req.trace) = 1
           /\ ~GotSecond

C4_Witness ==
    /\ Live /\ GotFirstMessage /\ Batch = <<>> /\ req.pc = "returned"
    /\ req.result.response = Str(<<"Sure.">>)
(***************************************************************************)
(* Failures of the chat capability, and mock mode.                         *)
(***************************************************************************)
\* C5: a failure of the chat or vision capability, on the first call, the
\* second call or the vision call, ends the request with a normal return:
\* an apologetic text that carries the error detail (and an empty client
\* tool-call list); an exception leaves a request only before any call to
\* the capability was made.
C5_FailSoft ==
    /\ (req.kind = "message" /\ req.first # <<>> /\ Failed(req.first))
          => /\ req.pc = "returned"
             /\ req.result =
                   [response |-> Str(<<"I tried to think, but my brain (Grok API) hurt. Error: ">>
                                         \o failure_detail(req.first)),
                    tool_calls |-> <<>>]
             /\ req.http.status = 200
    /\ (req.kind = "message" /\ GotSecond /\ Failed(req.second))
          => /\ req.pc = "returned"
             /\ req.result =
                   [response |-> Str(<<"I tried to think, but my brain (Grok API) hurt. Error: ">>
                                         \o failure_detail(req.second)),
                    tool_calls |-> <<>>]
             /\ req.http.status = 200
    /\ (req.kind = "vision" /\ req.first # <<>> /\ Failed(req.first))
          => /\ req.pc = "returned"
             /\ req.result.response =
                   Str(<<"I tried to look, but my eyes (Grok Vision) failed. Error: ">>
                           \o failure_detail(req.first))
             /\ req.http.status = 200
    /\ req.pc = "raised" => req.trace = <<>>

C5_Witness ==
    /\ req.kind = "message" /\ req.pc = "returned"
    /\ GotSecond /\ req.second.kind = "raise"
    /\ Contains(req.result.response.value, <<"Connection error.">>)

MockResponses ==
    {Str(github_mock_response)} \cup {Str(mock_response(m)) : m \in Messages}

\* C6 as stated: with no credential configured no call to the chat
\* capability is ever made, and every model-call path (chat message, vision
\* request, reflection) answers from its mock branch.
C6_AsStated ==
    NoCredential
        => /\ ChatCalls = <<>>
           /\ (req.kind = "message" /\ req.pc = "returned")
                 => req.result.response \in MockResponses
           /\ req.kind = "vision"
                 => req.result.response = Str(mock_vision_response)
           /\ req.kind = "reflect"
                 => req.pc = "returned" /\ req.http.status = 200

\* needle in hay.lower(), for a lower-case needle
ContainsIgnoringCase(hay, needle) ==
    \E i \in 1..(Len(hay) - Len(needle) + 1) :
        \A k \in 1..Len(needle) : LowerChar(hay[i + k - 1]) = needle[k]

\* C7: in mock mode process_message, on a message that does not contain
\* "github" in any letter case, returns a text that contains the message
\* itself, and an empty client tool-call list.
C7_MockEcho ==
    (~Live /\ req.kind = "message" /\ req.pc = "returned"
           /\ ~ContainsIgnoringCase(req.message, <<"g", "i", "t", "h", "u", "b">>))
        => /\ Contains(req.result.response.value, req.message)
           /\ req.result.tool_calls = <<>>
           /\ req.http.tool_calls = <<>>

C7_Witness ==
    /\ ~Live /\ req.kind = "message" /\ req.pc = "returned"
    /\ req.message = TxtGitHubSpaced
    /\ Contains(req.result.response.value, TxtGitHubSpaced)

\* C8: in mock mode process_vision returns the one placeholder text for
\* every image, having encoded nothing and called nothing.
C8_MockVision ==
    (~Live /\ req.kind = "vision")
        => /\ req.pc = "returned"
           /\ req.result.response =
                 Str(<<"I see an image! (Mock Vision Response - Set GROK_API_KEY to use Grok Vision)">>)
           /\ req.trace = <<>>
           /\ req.messages = <<>>

C8_Witness ==
    /\ ~Live /\ req.kind = "vision" /\ req.pc = "returned"
    /\ req.image = <<77, 97, 110, 121>>
    /\ req.trace = <<>>

(***************************************************************************)
(* Properties of the memory store.                                         *)
(***************************************************************************)
Searched == last_op.op = "search" /\ last_op.ok
\* the item stored last holds the text searched for: add_item(t) was the
\* last call that changed the store, and search(t, limit) came after it
AddedThenSearched ==
    /\ Searched
    /\ Len(Rows) >= 2
    /\ Rows[Len(Rows)].text_content = last_op.arg
FoundExact ==
    \E k \in 1..Len(last_op.results) : last_op.results[k].text_content = last_op.arg
\* the stored items with another text and the vector of the query
Homonyms ==
    {i \in 1..Len(Rows) :
        /\ Rows[i].id # "init"
        /\ Rows[i].text_content # last_op.arg
        /\ Rows[i].vector = embed(last_op.arg)}

\* C9 as stated: add_item(t, app, tags) followed by search(t, limit), with
\* limit >= 1, returns a list that contains an item whose content is t.
C9_AsStated == AddedThenSearched => FoundExact

\* C9 amended: add_item(t, app, tags) followed by search(t, limit), with
\* limit >= 1, returns a list whose first item has the vector of t; the
\* list contains an item whose content is exactly t whenever fewer than
\* limit stored items of another text have that same vector.
C9_OwnNeighbour ==
    AddedThenSearched
        => /\ last_op.results # <<>>
           /\ last_op.results[1].vector = embed(last_op.arg)
           /\ Cardinality(Homonyms) < last_op.limit => FoundExact

C9_Witness ==
    /\ AddedThenSearched
    /\ last_op.arg = TxtHi
    /\ Cardinality(Homonyms) = 1
    /\ last_op.limit = 2
    /\ FoundExact

\* C10: search never returns the sentinel item (id "init"), whatever the
\* query, the limit and the items stored, and returns at most limit items.
C10_NoSentinel ==
    Searched
        => /\ \A k \in 1..Len(last_op.results) : last_op.results[k].id # "init"
           /\ Len(last_op.results) <= last_op.limit

\* a search in which the sentinel was among the nearest rows
C10_Witness ==
    /\ Searched
    /\ Len(Rows) >= 3
    /\ last_op.limit = 2
    /\ Len(last_op.results) = 1

\* the store holds the bootstrap row and nothing a user added
NoUserItems == TableExists /\ \A i \in 1..Len(Rows) : Rows[i].id = "init"

\* C11: on a store that holds no user-added item (the freshly bootstrapped
\* table), search returns the empty sequence for every query and limit: an
\* empty list is the only result the call can give, and it is a result,
\* not an error.
C11_EmptyStore ==
    NoUserItems
        => /\ \A query \in Texts, limit \in 1..MaxLimit :
                  search(Rows, query, limit) = {<<>>}
           /\ Searched => last_op.results = <<>>

C11_Witness ==
    /\ NoUserItems
    /\ Searched
    /\ last_op.arg = TxtRepo
    /\ last_op.results = <<>>

\* C12: running _init_table on a store whose table exists changes nothing:
\* the run reports the table as existing, the data directory holds the one
\* table and every row stored before the run is still there after it.
C12_InitIdempotent ==
    [][(last_op'.op = "init_table" /\ TableExists /\ UNCHANGED <<req, other, disk, boot>>)
          => /\ db' = db
             /\ DOMAIN db' = {table_name}
             /\ last_op'.ok
             /\ last_op'.id = "exists"]_vars

\* a second initialization on a store that holds an item added in between
C12_Witness ==
    /\ last_op.op = "init_table"
    /\ last_op.id = "exists"
    /\ Len(Rows) = 2
    /\ Rows[1].id = "init"
    /\ Rows[2].text_content = TxtGitHub

\* every stored item carries the vector of its text
AllEmbedded ==
    \A i \in 1..Len(Rows) :
        Rows[i].id # "init" => Rows[i].vector = embed(Rows[i].text_content)

\* C14: when add_item fails, on the embedding or on persistence, the
\* add-memory endpoint answers 500 with the message of the error, the store
\* holds what it held before the call, no id was consumed by a stored row
\* and no stored item lacks its embedding.
C14_AddFails ==
    [][(last_op'.op = "add_item" /\ ~last_op'.ok /\ UNCHANGED <<req, other, disk, boot>>)
          => /\ db' = db
             /\ last_op'.http.status = 500
             /\ last_op'.http.detail = last_op'.error
             /\ last_op'.http.detail \in StoreErrors
             /\ last_op'.http.body.status # "success"
             /\ AllEmbedded']_vars

C14_Witness ==
    /\ last_op.op = "add_item"
    /\ ~last_op.ok
    /\ last_op.error = "StoreError"
    /\ last_op.http.status = 500
    /\ Len(Rows) = 2

\* the argument the schema of self.tools requires of a declared tool
RequiredArg(tool_call) ==
    IF IsServerCall(tool_call) THEN "query" ELSE "content"

\* the arguments do not decode, or they lack the required argument
Unusable(tool_call) ==
    \/ Args(tool_call).kind = "JSONDecodeError"
    \/ /\ IsServerCall(tool_call) \/ IsClientCall(tool_call)
       /\ \/ Args(tool_call).kind # "dict"
          \/ RequiredArg(tool_call) \notin DOMAIN Args(tool_call).value

\* the first unusable call of the batch, when the loop gets to it
FirstUnusable(j) ==
    /\ Unusable(Batch[j])
    /\ \A i \in 1..(j - 1) : ~Unusable(Batch[i]) /\ ~IsClientCall(Batch[i])

Handled(tool_call) ==
    \E k \in 1..Len(req.trace) :
        /\ req.trace[k].ev \in {"search_github", "delegate"}
        /\ req.trace[k].id = tool_call.id

\* C15 as stated: a requested tool call whose arguments do not decode or
\* lack the required argument is neither executed nor delegated, the
\* request returns a fallback text and does not crash.
C15_AsStated ==
    (Live /\ req.kind = "message" /\ req.pc = "returned" /\ GotFirstMessage)
        => \A j \in 1..Len(Batch) :
              FirstUnusable(j)
                 => /\ ~Handled(Batch[j])
                    /\ req.result.tool_calls = <<>>
                    /\ req.result.response.type = "str"
                    /\ req.http.status = 200

\* C16 as stated: the trigger-reflection operation completes with a success
\* response that carries the persona text, whatever else is being served.
C16_AsStated ==
    req.kind = "reflect"
        => /\ req.pc = "returned"
           /\ req.http.status = 200
           /\ req.http.response = Str(agent.persona_block)

\* C17 as stated: the health check never reports the service healthy while
\* the memory store is in a failed state, and it succeeds whenever the
\* process is up with a working store.
C17_AsStated ==
    [][(req.pc = "idle" /\ req'.kind = "health")
          => /\ disk = "ok"
             /\ req'.http.status = 200
             /\ req'.http.body.status = "ok"]_vars

\* chat calls started and chat calls answered within the request
Started == Len(ChatCalls)
Answered == (IF req.first # <<>> THEN 1 ELSE 0) + (IF req.second # <<>> THEN 1 ELSE 0)

\* the position in the trace of the k-th chat call
CallAt(k) ==
    CHOOSE n \in 1..Len(req.trace) :
        IsCreate(req.trace[n]) /\ Len(SelectSeq(SubSeq(req.trace, 1, n), IsCreate)) = k

\* the request has started one chat call, or two; a call is started only
\* when none is in flight; the second call is started after the first was
\* answered with a message and after every search_github call of its batch
\* was executed and its result appended, and nothing happens in the request
\* after it but its answer
OneOrTwoCalls ==
    /\ Started \in {1, 2}
    /\ CallAt(1) = 1
    /\ Started - Answered = (IF req.pc \in {"first_call", "second_call"} THEN 1 ELSE 0)
    /\ Started = 2
          => /\ GotFirstMessage
             /\ CallAt(2) = Len(req.trace)
             /\ \A j \in 1..Len(Batch) :
                   IsServerCall(Batch[j])
                      => /\ \E k \in 2..(CallAt(2) - 1) :
                               IsExec(req.trace[k]) /\ req.trace[k].id = Batch[j].id
                         /\ \E n \in 1..Len(req.trace[CallAt(2)].messages) :
                               req.trace[CallAt(2)].messages[n] = ResultTurn(Batch[j])
    /\ req.pc = "second_call" => Started = 2 /\ req.second = <<>>

\* C18 as stated: on every path of a live process_message request, failure
\* included, the chat capability is called at least once and at most twice,
\* the calls do not overlap and the second follows the first call's answer
\* and the results of its server-side tools.
C18_AsStated ==
    (Live /\ req.kind = "message") => OneOrTwoCalls

\* C18: a live process_message request whose memory retrieval raised has
\* made no chat call and has run no tool; every other live process_message
\* request has started one chat call, or two, never overlapping, the second
\* after the first call's answer and the results of its server-side tools.
C18_SequentialCalls ==
    (Live /\ req.kind = "message")
        => IF req.pc = "raised"
           THEN Started = 0 /\ req.trace = <<>> /\ req.first = <<>> /\ req.second = <<>>
           ELSE OneOrTwoCalls

\* the second call in flight, after two searches
C18_Witness ==
    /\ Live /\ req.kind = "message"
    /\ req.pc = "second_call"
    /\ Len(Executions) = 2
    /\ Started = 2 /\ Answered = 1

\* the request r as it stands when it is served alone: the code run on its
\* own inputs (message, context or image, the items retrieved for it, the
\* replies it got), with the agent as __init__ built it
Alone(r) ==
    IF r.kind = "message"
    THEN LET r0 == start_message(r.message, r.context, r.retrieved)
             r1 == IF r.first = <<>> THEN r0
                   ELSE after_first_reply([r0 EXCEPT !.first = r.first], r.first)
         IN  IF r.second = <<>> THEN r1
             ELSE after_second_reply([r1 EXCEPT !.second = r.second], r.second)
    ELSE IF r.kind = "vision"
    THEN LET r0 == start_vision(r.image) IN
         IF r.first = <<>> THEN r0
         ELSE after_vision_reply([r0 EXCEPT !.first = r.first], r.first)
    ELSE r

\* C19: process_message and process_vision leave the agent's process-lifetime
\* state (persona, human, scratchpad, tool schema) as __init__ built it, and
\* however two requests interleave, each stands (message list, calls made,
\* result, response) exactly as it would served alone on the same inputs,
\* retrieved items and model replies.
C19_Isolation ==
    /\ agent = LettaLiteAgent
    /\ req = Alone(req)
    /\ other = Alone(other)

\* both requests in flight, each past its own first reply or waiting for it
C19_Witness ==
    /\ req.pc = "second_call"
    /\ other.pc = "first_call"
    /\ req.message # other.message
    /\ req.context # other.context

\* the system prompt of the first chat call, and where a part starts in it
Prompt == req.trace[1].messages[1].content
Pos(part) ==
    CHOOSE i \in 0..Len(Prompt) :
        \/ i = 0 /\ \A j \in 1..Len(Prompt) : Prompt[j] # part
        \/ i > 0 /\ Prompt[i] = part /\ \A j \in 1..(i - 1) : Prompt[j] # part
After(i, text) == SubSeq(Prompt, i + 1, i + Len(text)) = text

PersonaAt == Pos("[PERSONA]\n")
HumanAt == Pos("[HUMAN]\n")
ContextAt == Pos("[CONTEXT]\nUser is currently using: ")
ClipboardAt == Pos("\nRELEVANT CLIPBOARD HISTORY:\n")
InstructionsAt == Pos("INSTRUCTIONS:\n")
MemoryAt == Pos("\nARCHIVAL MEMORY SEARCH RESULTS:\n")
Suffix ==
    <<"Answer the user's query based on your memory and the context provided. ",
      "You can update your memory if you learn something new about the user or yourself.">>

FirstCallSent == Live /\ req.kind = "message" /\ req.trace # <<>>

\* persona, human and context parts, each with its content, in this order
LeadingParts ==
    /\ 0 < PersonaAt /\ PersonaAt < HumanAt /\ HumanAt < ContextAt
    /\ After(PersonaAt, agent.persona_block)
    /\ After(HumanAt, agent.human_block)
    /\ After(ContextAt, Get(req.context, "app_name", <<"Unknown">>))
    /\ Get(req.context, "clipboard_items", <<>>) # <<>>
          => /\ ContextAt < ClipboardAt
             /\ After(ClipboardAt, clipboard_lines(req.context.clipboard_items))
    /\ Get(req.context, "clipboard_items", <<>>) = <<>> => ClipboardAt = 0

\* the memory block: its header, then one line for each retrieved item
MemoryBlock ==
    /\ Len(req.retrieved) <= 3
    /\ After(MemoryAt, result_lines(req.retrieved))
    /\ \A k \in 1..Len(req.retrieved) :
          Contains(SubSeq(Prompt, MemoryAt + 1, Len(Prompt)), req.retrieved[k].text_content)

\* C20 as stated: the system prompt of the first chat call is, in this
\* order, persona block, human block, situational context (application
\* name, then the clipboard items), the retrieved memory block (at most 3
\* items), and last the fixed instruction suffix.
C20_AsStated ==
    FirstCallSent
        => /\ LeadingParts
           /\ ContextAt < MemoryAt /\ ClipboardAt < MemoryAt
           /\ MemoryBlock
           /\ MemoryAt < InstructionsAt
           /\ After(InstructionsAt, Suffix)
           /\ InstructionsAt + Len(Suffix) = Len(Prompt)

\* C20 amended: the same parts, with the fixed instruction suffix before
\* the retrieved memory block: persona block, human block, situational
\* context (application name, then the clipboard items), the instruction
\* suffix, and last the memory block (at most 3 items), which ends the
\* prompt.
C20_PromptOrder ==
    FirstCallSent
        => /\ LeadingParts
           /\ ContextAt < InstructionsAt /\ ClipboardAt < InstructionsAt
           /\ After(InstructionsAt, Suffix)
           /\ MemoryAt = InstructionsAt + Len(Suffix) + 1
           /\ MemoryBlock
           /\ MemoryAt + Len(result_lines(req.retrieved)) = Len(Prompt)

\* four items stored, three retrieved, with a clipboard history
C20_Witness ==
    /\ FirstCallSent
    /\ Len(Rows) = 5
    /\ Len(req.retrieved) = 3
    /\ ClipboardAt > 0
    /\ req.message = TxtHi

\* C13 as stated: when several initializers race on a cold store, at most
\* one of them performs the table creation and the others observe the
\* table; no creation happens once the table exists.
C13_AsStated ==
    /\ Cardinality({p \in Initializers : boot[p] = "created"}) <= 1
    /\ ~(last_op.op = "create_table" /\ last_op.id = "overwrote")

\* the ids of the stored rows are pairwise distinct, and the sentinel id is
\* the id of the bootstrap row only
DistinctIds ==
    /\ \A i, j \in 1..Len(Rows) : i # j => Rows[i].id # Rows[j].id
    /\ \A i \in 2..Len(Rows) : Rows[i].id # "init"
    /\ TableExists => Rows[1] = schema_data[1]

\* a successful add_item: one row more, the rows before it as they were,
\* the new row under the id the call returned
AddedOne ==
    /\ Len(db'[table_name]) = Len(Rows) + 1
    /\ SubSeq(db'[table_name], 1, Len(Rows)) = Rows
    /\ db'[table_name][Len(Rows) + 1].id = last_op'.id
    /\ db'[table_name][Len(Rows) + 1].text_content = last_op'.arg

\* C21: after any sequence of initialization and add_item calls the stored
\* items have pairwise distinct ids and no user-added item has the sentinel
\* id; a successful add_item adds exactly one item and changes no item that
\* was there; search, whether it returns or raises, leaves the store as it
\* was.
C21_StoreIntegrity ==
    [][/\ DistinctIds'
       /\ (last_op'.op = "add_item" /\ last_op'.ok
              /\ UNCHANGED <<req, other, disk, boot>>) => AddedOne
       /\ (last_op'.op = "search" /\ UNCHANGED <<req, other, disk, boot>>)
             => db' = db]_vars

\* the same text stored twice, under two ids, and searched for
C21_Witness ==
    /\ Searched
    /\ Len(Rows) = 3
    /\ Rows[2].text_content = Rows[3].text_content
    /\ Rows[2].id # Rows[3].id
    /\ Len(last_op.results) = 2

\* the message list of the second chat call, and the place of the assistant
\* tool-request turn in it
SecondCallMessages == req.trace[CallAt(2)].messages
AssistantAt ==
    CHOOSE n \in 1..Len(SecondCallMessages) : SecondCallMessages[n].role = "assistant"

\* the tool-result turns that answer the call, placed after the assistant turn
ResultTurnsFor(tool_call) ==
    {n \in (AssistantAt + 1)..Len(SecondCallMessages) :
        /\ SecondCallMessages[n].role = "tool"
        /\ SecondCallMessages[n].tool_call_id = tool_call.id}

\* C22 as stated: whenever a second chat call is issued, every tool call id
\* of the assistant tool-request turn has exactly one tool-result turn with
\* that tool_call_id after the assistant turn, also when the batch names a
\* tool outside {search_github, paste_to_app}.
C22_AsStated ==
    (Live /\ req.kind = "message" /\ Started = 2)
        => /\ \E n \in 1..Len(SecondCallMessages) : SecondCallMessages[n] = FirstMessage
           /\ \A j \in 1..Len(Batch) : Cardinality(ResultTurnsFor(Batch[j])) = 1

\* C23 as stated: whatever the chat capability answered (a text, no text,
\* a batch of tool calls of any names, a failure of either call), the
\* send-chat-message endpoint answers 200 with a response that is a text
\* string and a tool_calls list.
C23_AsStated ==
    (Live /\ req.kind = "message" /\ req.pc = "returned" /\ req.first # <<>>)
        => /\ req.http.status = 200
           /\ req.http.response.type = "str"
           /\ req.http.tool_calls = req.result.tool_calls
====
